---- MODULE Spec2Model ----
(***************************************************************************)
(* Model of the scan-session and duplicate-guarded save pipeline of        *)
(* src/App.tsx (the App component, lines 31-518) together with             *)
(* src/services/geminiService.ts.  Every browser tab running the App is a  *)
(* client; all clients share one remote table scanned_records.             *)
(***************************************************************************)
EXTENDS Integers, Sequences, FiniteSets, TLC

(* ---------- bounds ---------- *)
MaxSaves == 2
MaxStarts == 2
MaxDecodes == 2

(* ---------- values ---------- *)
Clients == {1, 2}

\* a text is a sequence of characters; NULL is the JavaScript null
NULL == <<"null">>
RawTexts == { <<"s">>, <<"t">>, <<" ", "s">>, <<"t", " ">>, <<" ">> }

PART_NUMBER == "partNumber"
UNIQUE_CODE == "uniqueCode"
ScanTarget == {PART_NUMBER, UNIQUE_CODE}

IsWhitespace(ch) == ch = " "

RECURSIVE TrimStart(_)
TrimStart(s) ==
  IF s = <<>> THEN <<>>
  ELSE IF IsWhitespace(Head(s)) THEN TrimStart(Tail(s)) ELSE s

RECURSIVE TrimEnd(_)
TrimEnd(s) ==
  IF s = <<>> THEN <<>>
  ELSE IF IsWhitespace(s[Len(s)]) THEN TrimEnd(SubSeq(s, 1, Len(s) - 1)) ELSE s

\* String.prototype.trim
Trim(s) == TrimEnd(TrimStart(s))

SlotValues == {NULL} \cup { Trim(x) : x \in RawTexts }

\* JavaScript truthiness of  string | null : null and "" are falsy
Falsy(v) == v = NULL \/ v = <<>>

EmptySession == [partNumber |-> NULL, uniqueCode |-> NULL]
Sessions == [partNumber : SlotValues, uniqueCode : SlotValues]

(* ---------- messages shown to the operator ---------- *)
NoMsg == "null"
ErrIncomplete == "scan both codes"
ErrDuplicate == "duplicate code"
ErrSave == "cloud save failed"
ErrDelete == "delete failed"
ErrFetch == "load failed"
ErrContainer == "Scanner area loading error."
ErrCamera == "camera not accessible"
ErrPin == "Invalid Authorization PIN"
MsgSaved == "saved"
MsgDeleted == "deleted"
ErrReport == "Error creating report."
MsgReport == "Report generated."

(* ---------- annotation service ---------- *)
\* what ai.models.generateContent does: it throws, or it resolves with a
\* response whose text may be empty
Responses == { [ok |-> FALSE, text |-> ""],
               [ok |-> TRUE, text |-> ""],
               [ok |-> TRUE, text |-> "Pair looks valid."] }

\* the answers with a text and without one that the two-client runs use
PipelineResponses == { r \in Responses : ~r.ok \/ r.text # "" }

analyzeScanPairThrowsAway(resp) ==
  IF ~resp.ok THEN "" ELSE resp.text

analyzeScanPair(resp) ==
  IF ~resp.ok THEN "Verification complete."
  ELSE IF resp.text = "" THEN "Scan verified by AI." ELSE resp.text

VARIABLES
  store,        \* rows of the remote table scanned_records
  session,      \* session[c]: the two slots of client c
  records,      \* records[c]: the in-memory list of client c, head first
  isAnalyzing,  \* isAnalyzing[c]: the in-flight flag
  error,        \* error[c]: the error notification
  success,      \* success[c]: the success notification
  saveTask,     \* saveTask[t]: one handleSave invocation, suspended at an await
  fetchTask,    \* fetchTask[c]: the fetchRecords call of client c
  delTask,      \* delete requests in flight
  isAuthorized, \* the operator has passed the PIN gate (src/unnamed/part_003)
  currentView,  \* 'scan' or 'history'
  isScanning,   \* the isScanning state of the App
  activeTarget, \* the target shown as active
  scannerRef,   \* scannerRef.current: 0 is null, k the decoder of start k
  starts,       \* starts[k]: the k-th startScanner call, suspended at an await
  dec,          \* dec[k]: the Html5Qrcode instance created by start k
  stopWait,     \* stopWait[k]: the stopScanner call awaiting dec[k].stop()
  writes,       \* writes[k]: session writes made by the callback of start k
  report,       \* the sheet last written by exportToExcel
  stopAsked     \* history: the pending starts during whose delay Stop was pressed

saveVars == <<store, session, records, isAnalyzing, error, success,
              saveTask, fetchTask, delTask>>

scanVars == <<isAuthorized, currentView, isScanning, activeTarget, scannerRef,
              starts, dec, stopWait, writes>>

auxVars == <<report, stopAsked>>

vars == <<saveVars, scanVars, auxVars>>

SaveSlots == 1..MaxSaves
StartIds == 1..MaxStarts

\* the client whose scanner is modelled
Operator == 1

\* values of stopWait: no call is waiting, a call made by the Stop button or
\* by a decode callback, or (k >= 1) the call made by startScanner call k
NoStop == 0
PlainStop == -1

\* no sheet has been written yet
NoReport == [written |-> FALSE, rows |-> <<>>]

\* an invocation that has not been made yet, and one that has returned
IdleTask == [pc |-> "idle", client |-> 1, partNumber |-> NULL,
             uniqueCode |-> NULL, reply |-> "none",
             annotation |-> "none", id |-> 0, timestamp |-> 0, analysis |-> ""]
DoneTask == [IdleTask EXCEPT !.pc = "done"]

InFlight(t) == saveTask[t].pc \notin {"idle", "done"}

\* crypto.randomUUID(): a fresh identifier for every call
generateId(t) == t

\* the row sent by insert([newRecordData])
newRecordData(t) ==
  [id |-> saveTask[t].id, part_number |-> saveTask[t].partNumber,
   unique_code |-> saveTask[t].uniqueCode,
   timestamp |-> saveTask[t].timestamp, analysis |-> saveTask[t].analysis]

\* the mapping of a row to a ScannedRecord
ScannedRecord(row) ==
  [id |-> row.id, partNumber |-> row.part_number,
   uniqueCode |-> row.unique_code, timestamp |-> row.timestamp,
   status |-> "synced", analysis |-> row.analysis]

(* ---------- the remote table ---------- *)
\* select id where unique_code = code, maybeSingle
SelectByCode(code) == { r \in store : r.unique_code = code }

UniqueViolationIdOnly(row) == \E r \in store : r.id = row.id

\* the insert violates the uniqueness constraint of the table (error 23505)
UniqueViolation(row) ==
  \E r \in store : r.unique_code = row.unique_code \/ r.id = row.id

\* rows ordered by timestamp descending (ties by id descending)
RECURSIVE OrderByTimestampDesc(_)
OrderByTimestampDesc(rows) ==
  IF rows = {} THEN <<>>
  ELSE LET top == CHOOSE r \in rows : \A q \in rows :
                    \/ r.timestamp > q.timestamp
                    \/ (r.timestamp = q.timestamp /\ r.id >= q.id)
       IN <<top>> \o OrderByTimestampDesc(rows \ {top})

\* (data || []).map(item => ...)
mappedData(data) == [i \in 1..Len(data) |-> ScannedRecord(data[i])]

RECURSIVE FilterOutId(_, _)
FilterOutId(s, id) ==
  IF s = <<>> THEN <<>>
  ELSE IF Head(s).id = id THEN FilterOutId(Tail(s), id)
       ELSE <<Head(s)>> \o FilterOutId(Tail(s), id)

(* ---------- initial state: the App has just mounted ---------- *)
\* useState initial values; the mount effect has called fetchRecords
InitScanner ==
  /\ isAuthorized = TRUE
  /\ currentView = "scan"
  /\ isScanning = FALSE
  /\ activeTarget = PART_NUMBER
  /\ scannerRef = 0
  /\ starts = [k \in StartIds |-> [pc |-> "idle", target |-> PART_NUMBER]]
  /\ dec = [k \in StartIds |-> [state |-> "none", cb |-> 0]]
  /\ stopWait = [k \in StartIds |-> NoStop]
  /\ writes = [k \in StartIds |-> 0]
  /\ report = NoReport
  /\ stopAsked = {}

InitSave ==
  /\ isAnalyzing = [c \in Clients |-> FALSE]
  /\ error = [c \in Clients |-> NoMsg]
  /\ success = [c \in Clients |-> NoMsg]
  /\ saveTask = [t \in SaveSlots |-> IdleTask]
  /\ delTask = {}

(* ---------- handleSave ---------- *)
IncompleteWhenBothUnset(s) == Falsy(s.partNumber) /\ Falsy(s.uniqueCode)

\* !session.partNumber || !session.uniqueCode
Incomplete(s) == Falsy(s.partNumber) \/ Falsy(s.uniqueCode)

\* t is the next invocation
NextInvocation(t) ==
  /\ saveTask[t].pc = "idle"
  /\ \A u \in SaveSlots : u < t => saveTask[u].pc # "idle"

\* handleSave is invoked (by the button or directly) and runs up to its
\* first await: the duplicate-check query is on its way to the store
HandleSave(c, t) ==
  /\ NextInvocation(t)
  /\ IF Incomplete(session[c])
       THEN /\ error' = [error EXCEPT ![c] = ErrIncomplete]
            /\ UNCHANGED <<isAnalyzing, saveTask>>
       ELSE /\ isAnalyzing' = [isAnalyzing EXCEPT ![c] = TRUE]
            /\ error' = [error EXCEPT ![c] = NoMsg]
            /\ saveTask' = [saveTask EXCEPT ![t] =
                   [IdleTask EXCEPT !.pc = "check", !.client = c,
                                    !.partNumber = session[c].partNumber,
                                    !.uniqueCode = session[c].uniqueCode]]
  /\ UNCHANGED <<store, session, records, success, fetchTask, delTask>>
  /\ UNCHANGED scanVars
  /\ UNCHANGED auxVars

\* the store answers the duplicate-check query, or the request fails
StoreAnswersCheck(t, failed) ==
  /\ saveTask[t].pc = "check"
  /\ saveTask' = [saveTask EXCEPT ![t].pc = "checked",
        ![t].reply = IF failed THEN "error"
                     ELSE IF SelectByCode(saveTask[t].uniqueCode) # {}
                          THEN "row" ELSE "none"]
  /\ UNCHANGED <<store, session, records, isAnalyzing, error, success,
                 fetchTask, delTask>>
  /\ UNCHANGED scanVars
  /\ UNCHANGED auxVars

\* const { data: existing } = await ... : data is null unless a row came back
existing(t) == saveTask[t].reply = "row"

DuplicateFoundButSaved(c, t) ==
  /\ error' = [error EXCEPT ![c] = ErrDuplicate]
  /\ saveTask' = [saveTask EXCEPT ![t].pc = "annotate", ![t].reply = "none"]
  /\ UNCHANGED <<isAnalyzing, store, session, records, success>>

\* if (existing) { setError(duplicate); setIsAnalyzing(false); return; }
\* the finally block sets the flag once more
DuplicateFound(c, t) ==
  /\ error' = [error EXCEPT ![c] = ErrDuplicate]
  /\ isAnalyzing' = [isAnalyzing EXCEPT ![c] = FALSE]
  /\ saveTask' = [saveTask EXCEPT ![t] = DoneTask]
  /\ UNCHANGED <<store, session, records, success>>

\* handleSave resumes after the duplicate check and, when no row came
\* back, calls analyzeScanPair
CheckReturns(t) ==
  /\ saveTask[t].pc = "checked"
  /\ IF existing(t)
       THEN DuplicateFound(saveTask[t].client, t)
       ELSE /\ saveTask' = [saveTask EXCEPT ![t].pc = "annotate",
                                            ![t].reply = "none"]
            /\ UNCHANGED <<store, session, records, isAnalyzing, error, success>>
  /\ UNCHANGED <<fetchTask, delTask>>
  /\ UNCHANGED scanVars
  /\ UNCHANGED auxVars

\* analyzeScanPair returns; handleSave builds newRecordData with a fresh id
\* and the client's clock reading, and sends the insert
AnnotateReturns(t, resp, now) ==
  /\ saveTask[t].pc = "annotate"
  /\ saveTask' = [saveTask EXCEPT ![t].pc = "insert",
                                  ![t].analysis = analyzeScanPair(resp),
                                  ![t].annotation =
                                     IF ~resp.ok THEN "threw"
                                     ELSE IF resp.text = "" THEN "empty"
                                     ELSE "ok",
                                  ![t].id = generateId(t),
                                  ![t].timestamp = now]
  /\ UNCHANGED <<store, session, records, isAnalyzing, error, success,
                 fetchTask, delTask>>
  /\ UNCHANGED scanVars
  /\ UNCHANGED auxVars

\* the store processes the insert: it adds the row and acknowledges,
\* adds the row while the acknowledgement is lost, rejects the row for
\* uniqueness, or the request fails before reaching the table
StoreAnswersInsert(t, net) ==
  /\ saveTask[t].pc = "insert"
  /\ \/ /\ net = "failed"
        /\ store' = store
        /\ saveTask' = [saveTask EXCEPT ![t].pc = "inserted", ![t].reply = "error"]
     \/ /\ net # "failed"
        /\ UniqueViolation(newRecordData(t))
        /\ store' = store
        /\ saveTask' = [saveTask EXCEPT ![t].pc = "inserted",
              ![t].reply = IF net = "ok" THEN "23505" ELSE "error"]
     \/ /\ net # "failed"
        /\ ~UniqueViolation(newRecordData(t))
        /\ store' = store \cup {newRecordData(t)}
        /\ saveTask' = [saveTask EXCEPT ![t].pc = "inserted",
              ![t].reply = IF net = "ok" THEN "ok" ELSE "error"]
  /\ UNCHANGED <<session, records, isAnalyzing, error, success,
                 fetchTask, delTask>>
  /\ UNCHANGED scanVars
  /\ UNCHANGED auxVars

insertErrOnlyConflict(t) == saveTask[t].reply = "23505"

\* const { error: insertErr } = await ... insert
insertErr(t) == saveTask[t].reply # "ok"

CommitAtTail(c, t) ==
  /\ records' = [records EXCEPT ![c] =
                    @ \o <<ScannedRecord(newRecordData(t))>>]
  /\ session' = [session EXCEPT ![c] = EmptySession]
  /\ success' = [success EXCEPT ![c] = MsgSaved]
  /\ isAnalyzing' = [isAnalyzing EXCEPT ![c] = FALSE]
  /\ saveTask' = [saveTask EXCEPT ![t] = DoneTask]
  /\ UNCHANGED error

\* setRecords(prev => [record, ...prev]); setSession(empty); setSuccess;
\* finally setIsAnalyzing(false)
Commit(c, t) ==
  /\ records' = [records EXCEPT ![c] =
                    <<ScannedRecord(newRecordData(t))>> \o @]
  /\ session' = [session EXCEPT ![c] = EmptySession]
  /\ success' = [success EXCEPT ![c] = MsgSaved]
  /\ isAnalyzing' = [isAnalyzing EXCEPT ![c] = FALSE]
  /\ saveTask' = [saveTask EXCEPT ![t] = DoneTask]
  /\ UNCHANGED error

SaveFailedClearsSession(c, t) ==
  /\ error' = [error EXCEPT ![c] = ErrSave]
  /\ isAnalyzing' = [isAnalyzing EXCEPT ![c] = FALSE]
  /\ saveTask' = [saveTask EXCEPT ![t] = DoneTask]
  /\ session' = [session EXCEPT ![c] = EmptySession]
  /\ UNCHANGED <<records, success>>

\* catch (err) { setError(save failure) } finally { setIsAnalyzing(false) }
SaveFailed(c, t) ==
  /\ error' = [error EXCEPT ![c] = ErrSave]
  /\ isAnalyzing' = [isAnalyzing EXCEPT ![c] = FALSE]
  /\ saveTask' = [saveTask EXCEPT ![t] = DoneTask]
  /\ UNCHANGED <<session, records, success>>

InsertReturnsHangsOnError(t) ==
  /\ saveTask[t].pc = "inserted"
  /\ ~insertErr(t)
  /\ Commit(saveTask[t].client, t)
  /\ UNCHANGED <<store, fetchTask, delTask>>
  /\ UNCHANGED scanVars
  /\ UNCHANGED auxVars

\* handleSave resumes after the insert: if (insertErr) throw insertErr
InsertReturns(t) ==
  /\ saveTask[t].pc = "inserted"
  /\ IF insertErr(t)
       THEN SaveFailed(saveTask[t].client, t)
       ELSE Commit(saveTask[t].client, t)
  /\ UNCHANGED <<store, fetchTask, delTask>>
  /\ UNCHANGED scanVars
  /\ UNCHANGED auxVars

\* the Reset button: setSession({partNumber: null, uniqueCode: null})
ResetSession(c) ==
  /\ session' = [session EXCEPT ![c] = EmptySession]
  /\ UNCHANGED <<store, records, isAnalyzing, error, success, saveTask,
                 fetchTask, delTask>>
  /\ UNCHANGED scanVars
  /\ UNCHANGED auxVars

(* ---------- fetchRecords ---------- *)
\* the store answers  select * order by timestamp desc, or the request fails
StoreAnswersFetch(c, failed) ==
  /\ fetchTask[c].pc = "sent"
  /\ fetchTask' = [fetchTask EXCEPT ![c] =
        IF failed THEN [pc |-> "failed", data |-> <<>>]
        ELSE [pc |-> "replied", data |-> OrderByTimestampDesc(store)]]
  /\ UNCHANGED <<store, session, records, isAnalyzing, error, success,
                 saveTask, delTask>>
  /\ UNCHANGED scanVars
  /\ UNCHANGED auxVars

\* fetchRecords resumes: setRecords(mappedData), or setError on failure
FetchReturns(c) ==
  /\ fetchTask[c].pc \in {"replied", "failed"}
  /\ IF fetchTask[c].pc = "failed"
       THEN /\ error' = [error EXCEPT ![c] = ErrFetch]
            /\ UNCHANGED records
       ELSE /\ records' = [records EXCEPT ![c] =
                              mappedData(fetchTask[c].data)]
            /\ UNCHANGED error
  /\ fetchTask' = [fetchTask EXCEPT ![c] = [pc |-> "idle", data |-> <<>>]]
  /\ UNCHANGED <<store, session, isAnalyzing, success, saveTask, delTask>>
  /\ UNCHANGED scanVars
  /\ UNCHANGED auxVars

(* ---------- handleDelete ---------- *)
ListedIds(c) == { records[c][i].id : i \in 1..Len(records[c]) }

\* the trash button of a listed record: confirm(), then the delete request
HandleDelete(c, id, confirmed) ==
  /\ id \in ListedIds(c)
  /\ \A d \in delTask : ~(d.client = c /\ d.id = id)
  /\ delTask' = IF confirmed
                 THEN delTask \cup {[client |-> c, id |-> id, reply |-> "none"]}
                 ELSE delTask
  /\ UNCHANGED <<store, session, records, isAnalyzing, error, success,
                 saveTask, fetchTask>>
  /\ UNCHANGED scanVars
  /\ UNCHANGED auxVars

\* the store processes  delete where id = X : no matching row is no error
StoreAnswersDelete(d, failed) ==
  /\ d \in delTask
  /\ d.reply = "none"
  /\ store' = IF failed THEN store ELSE { r \in store : r.id # d.id }
  /\ delTask' = (delTask \ {d}) \cup
                   {[d EXCEPT !.reply = IF failed THEN "error" ELSE "ok"]}
  /\ UNCHANGED <<session, records, isAnalyzing, error, success,
                 saveTask, fetchTask>>
  /\ UNCHANGED scanVars
  /\ UNCHANGED auxVars

DeleteReturnsFiltersOnError(d) ==
  /\ d \in delTask
  /\ d.reply # "none"
  /\ delTask' = delTask \ {d}
  /\ records' = [records EXCEPT ![d.client] = FilterOutId(@, d.id)]
  /\ IF d.reply = "error"
       THEN /\ error' = [error EXCEPT ![d.client] = ErrDelete]
            /\ UNCHANGED success
       ELSE /\ success' = [success EXCEPT ![d.client] = MsgDeleted]
            /\ UNCHANGED error
  /\ UNCHANGED <<store, session, isAnalyzing, saveTask, fetchTask>>
  /\ UNCHANGED scanVars
  /\ UNCHANGED auxVars

\* handleDelete resumes: if (delErr) throw; filter the list; setSuccess
DeleteReturns(d) ==
  /\ d \in delTask
  /\ d.reply # "none"
  /\ delTask' = delTask \ {d}
  /\ IF d.reply = "error"
       THEN /\ error' = [error EXCEPT ![d.client] = ErrDelete]
            /\ UNCHANGED <<records, success>>
       ELSE /\ records' = [records EXCEPT ![d.client] = FilterOutId(@, d.id)]
            /\ success' = [success EXCEPT ![d.client] = MsgDeleted]
            /\ UNCHANGED error
  /\ UNCHANGED <<store, session, isAnalyzing, saveTask, fetchTask>>
  /\ UNCHANGED scanVars
  /\ UNCHANGED auxVars

(* ---------- exportToExcel ---------- *)
\* new Date(r.timestamp).toLocaleString(): the timestamp in local notation
toLocaleString(timestamp) == <<"local", timestamp>>

\* the object built for one record: its keys, in order, are the columns
SheetRow(r) ==
  << <<"Part Number", r.partNumber>>,
     <<"Unique Serial", r.uniqueCode>>,
     <<"Date & Time", toLocaleString(r.timestamp)>>,
     <<"Verification", r.analysis>> >>

json_to_sheetSkipsFirst(rs) ==
  [i \in 1..(Len(rs) - 1) |-> SheetRow(rs[i + 1])]

\* XLSX.utils.json_to_sheet(records.map(...)): one data row per record
json_to_sheet(rs) == [i \in 1..Len(rs) |-> SheetRow(rs[i])]

\* the Export button: the sheet is written and the success notification
\* set, or the library throws and the error is set
exportToExcel(c, threw) ==
  /\ Len(records[c]) > 0     \* the Export button is disabled on an empty list
  /\ IF threw
       THEN /\ error' = [error EXCEPT ![c] = ErrReport]
            /\ UNCHANGED <<success, report>>
       ELSE /\ report' = [written |-> TRUE, rows |-> json_to_sheet(records[c])]
            /\ success' = [success EXCEPT ![c] = MsgReport]
            /\ UNCHANGED error
  /\ UNCHANGED <<store, session, records, isAnalyzing, saveTask, fetchTask,
                 delTask>>
  /\ UNCHANGED scanVars
  /\ UNCHANGED stopAsked

(* ---------- the save pipeline of two clients ---------- *)
\* the sessions the operators have scanned before the saves begin
InitSessions == [partNumber : {NULL, <<"s">>},
                 uniqueCode : {<<"s">>, <<"t">>}]

\* a row an earlier session has stored
OldRow == [id |-> 0, part_number |-> <<"s">>, unique_code |-> <<"t">>,
           timestamp |-> 0, analysis |-> "Verification complete."]
InitStores == { {}, {OldRow} }

\* both clients have mounted and their first fetchRecords has returned
InitPipeline ==
  /\ InitSave
  /\ InitScanner
  /\ store \in InitStores
  /\ records = [c \in Clients |->
                  mappedData(OrderByTimestampDesc(store))]
  /\ session \in [Clients -> InitSessions]
  /\ fetchTask = [c \in Clients |-> [pc |-> "idle", data |-> <<>>]]

\* the steps of the save pipeline and of delete for the clients Cs, with
\* the annotation service answering from Rs
SaveSteps(Cs, Rs) ==
  \/ \E c \in Cs, t \in SaveSlots : HandleSave(c, t)
  \/ \E t \in SaveSlots, failed \in BOOLEAN : StoreAnswersCheck(t, failed)
  \/ \E t \in SaveSlots : CheckReturns(t)
  \/ \E t \in SaveSlots, resp \in Rs :
        \E now \in {t} : AnnotateReturns(t, resp, now)
  \/ \E t \in SaveSlots, net \in {"ok", "lost", "failed"} :
        StoreAnswersInsert(t, net)
  \/ \E t \in SaveSlots : InsertReturns(t)
  \/ \E c \in Cs, id \in 0..MaxSaves, confirmed \in BOOLEAN :
        HandleDelete(c, id, confirmed)
  \/ \E d \in delTask, failed \in BOOLEAN : StoreAnswersDelete(d, failed)
  \/ \E d \in delTask : DeleteReturns(d)

NextPipeline == SaveSteps(Clients, PipelineResponses)

SpecPipeline == InitPipeline /\ [][NextPipeline]_vars

(* ---------- one client, from its mount ---------- *)
Solo == {1}

\* the client has just mounted: its first fetchRecords is on its way
InitSolo ==
  /\ InitSave
  /\ InitScanner
  /\ store \in InitStores
  /\ records = [c \in Clients |-> <<>>]
  /\ session \in [Clients -> Sessions]
  /\ session[2] = EmptySession
  /\ fetchTask = [c \in Clients |->
        [pc |-> IF c \in Solo THEN "sent" ELSE "idle", data |-> <<>>]]

NextSolo ==
  \/ SaveSteps(Solo, Responses)
  \/ \E c \in Solo : ResetSession(c)
  \/ \E c \in Solo, failed \in BOOLEAN : StoreAnswersFetch(c, failed)
  \/ \E c \in Solo : FetchReturns(c)

SpecSolo == InitSolo /\ [][NextSolo]_vars

(* ---------- the scanner of one client ---------- *)
\* Html5Qrcode.isScanning: the instance has left NOT_STARTED, which it does
\* when start() completes and undoes when stop() completes
DecIsScanning(j) == dec[j].state \in {"scanning", "stopping"}

\* the instance holds an open camera stream
CameraHeld(j) == dec[j].state \in {"scanning", "stopping"}

\* document.getElementById(SCANNER_ID): the div is rendered in the scan
\* view while isScanning (and, with the PIN gate, while authorized)
container == isAuthorized /\ currentView = "scan" /\ isScanning

NextStart(k) ==
  /\ starts[k].pc = "idle"
  /\ \A u \in StartIds : u < k => starts[u].pc # "idle"

\* scannerRef.current is set and its isScanning is true while no stop() is
\* under way: stopScanner calls stop() and waits for it.  In every other
\* case stopScanner runs through without a suspension: no decoder at all,
\* or stop() refused by a decoder already stopping (caught), or clear()
\* alone, and then the finally block
StopMustWait ==
  /\ scannerRef # 0
  /\ DecIsScanning(scannerRef)
  /\ dec[scannerRef].state # "stopping"

stopScannerResetsIdleFlag ==
  IF scannerRef = 0
  THEN isScanning' = FALSE /\ UNCHANGED <<scannerRef, dec, stopWait>>
  ELSE IF StopMustWait
  THEN /\ dec' = [dec EXCEPT ![scannerRef].state = "stopping"]
       /\ stopWait' = [stopWait EXCEPT ![scannerRef] = PlainStop]
       /\ UNCHANGED <<scannerRef, isScanning>>
  ELSE /\ scannerRef' = 0
       /\ isScanning' = FALSE
       /\ UNCHANGED <<dec, stopWait>>

\* stopScanner(), called by the Stop button or by a decode callback
stopScanner ==
  IF scannerRef = 0
  THEN UNCHANGED <<scannerRef, dec, stopWait, isScanning>>
  ELSE IF StopMustWait
  THEN /\ dec' = [dec EXCEPT ![scannerRef].state = "stopping"]
       /\ stopWait' = [stopWait EXCEPT ![scannerRef] = PlainStop]
       /\ UNCHANGED <<scannerRef, isScanning>>
  ELSE /\ scannerRef' = 0
       /\ isScanning' = FALSE
       /\ UNCHANGED <<dec, stopWait>>

\* the Stop button, shown over the viewfinder while isScanning
StopButton ==
  /\ currentView = "scan"
  /\ isScanning
  /\ stopScanner
  /\ UNCHANGED <<isAuthorized, currentView, activeTarget, starts, writes>>
  /\ UNCHANGED saveVars
  /\ stopAsked' = stopAsked \cup { k \in StartIds : starts[k].pc = "timer" }
  /\ UNCHANGED report

\* startScanner(target) up to its first suspension: setError(null) and
\* await stopScanner(); when that runs through, also setActiveTarget,
\* setIsScanning(true) and the 400 ms timer
StartScanner(target, k) ==
  /\ currentView = "scan"
  /\ NextStart(k)
  /\ error' = [error EXCEPT ![Operator] = NoMsg]
  /\ IF StopMustWait
       THEN /\ dec' = [dec EXCEPT ![scannerRef].state = "stopping"]
            /\ stopWait' = [stopWait EXCEPT ![scannerRef] = k]
            /\ starts' = [starts EXCEPT ![k] = [pc |-> "stopping", target |-> target]]
            /\ UNCHANGED <<scannerRef, isScanning, activeTarget>>
       ELSE /\ scannerRef' = 0
            /\ activeTarget' = target
            /\ isScanning' = TRUE
            /\ starts' = [starts EXCEPT ![k] = [pc |-> "timer", target |-> target]]
            /\ UNCHANGED <<dec, stopWait>>
  /\ UNCHANGED <<isAuthorized, currentView, writes>>
  /\ UNCHANGED <<store, session, records, isAnalyzing, success, saveTask,
                 fetchTask, delTask>>
  /\ UNCHANGED auxVars

\* dec[j].stop() completes: the camera is released, and the stopScanner
\* call that awaited it runs clear() and its finally block; a startScanner
\* call waiting for that stopScanner goes on to its timer
StopCompletes(j) ==
  /\ dec[j].state = "stopping"
  /\ dec' = [dec EXCEPT ![j].state = "stopped"]
  /\ stopWait' = [stopWait EXCEPT ![j] = NoStop]
  /\ scannerRef' = 0
  /\ IF stopWait[j] = PlainStop
       THEN /\ isScanning' = FALSE
            /\ UNCHANGED <<activeTarget, starts>>
       ELSE /\ activeTarget' = starts[stopWait[j]].target
            /\ isScanning' = TRUE
            /\ starts' = [starts EXCEPT ![stopWait[j]].pc = "timer"]
  /\ UNCHANGED <<isAuthorized, currentView, writes>>
  /\ UNCHANGED saveVars
  /\ UNCHANGED auxVars

TimerFiresWithoutContainerCheck(k) ==
  /\ starts[k].pc = "timer"
  /\ scannerRef' = k
  /\ dec' = [dec EXCEPT ![k] = [state |-> "starting", cb |-> k]]
  /\ starts' = [starts EXCEPT ![k].pc = "start1"]
  /\ UNCHANGED <<isScanning, error>>
  /\ UNCHANGED <<isAuthorized, currentView, activeTarget, stopWait, writes>>
  /\ UNCHANGED <<store, session, records, isAnalyzing, success, saveTask,
                 fetchTask, delTask>>
  /\ stopAsked' = stopAsked \ {k}
  /\ UNCHANGED report

\* the 400 ms timer of start k fires: without the container it gives up;
\* otherwise it creates the decoder, stores it in scannerRef and calls
\* scanner.start with the callback of this start
TimerFires(k) ==
  /\ starts[k].pc = "timer"
  /\ IF ~container
       THEN /\ isScanning' = FALSE
            /\ error' = [error EXCEPT ![Operator] = ErrContainer]
            /\ starts' = [starts EXCEPT ![k].pc = "done"]
            /\ UNCHANGED <<scannerRef, dec>>
       ELSE /\ scannerRef' = k
            /\ dec' = [dec EXCEPT ![k] = [state |-> "starting", cb |-> k]]
            /\ starts' = [starts EXCEPT ![k].pc = "start1"]
            /\ UNCHANGED <<isScanning, error>>
  /\ UNCHANGED <<isAuthorized, currentView, activeTarget, stopWait, writes>>
  /\ UNCHANGED <<store, session, records, isAnalyzing, success, saveTask,
                 fetchTask, delTask>>
  /\ stopAsked' = stopAsked \ {k}
  /\ UNCHANGED report

StartSettlesKeepsScanning(j, acquired) ==
  /\ dec[j].state = "starting"
  /\ LET k == dec[j].cb IN
     IF acquired
     THEN /\ dec' = [dec EXCEPT ![j].state = "scanning"]
          /\ starts' = [starts EXCEPT ![k].pc = "done"]
          /\ UNCHANGED <<isScanning, error>>
     ELSE /\ dec' = [dec EXCEPT ![j].state = "created"]
          /\ IF starts[k].pc = "start1"
               THEN /\ starts' = [starts EXCEPT ![k].pc = "wait500"]
                    /\ UNCHANGED <<isScanning, error>>
               ELSE /\ starts' = [starts EXCEPT ![k].pc = "done"]
                    /\ error' = [error EXCEPT ![Operator] = ErrCamera]
                    /\ UNCHANGED isScanning
  /\ UNCHANGED <<isAuthorized, currentView, activeTarget, scannerRef, stopWait, writes>>
  /\ UNCHANGED <<store, session, records, isAnalyzing, success, saveTask,
                 fetchTask, delTask>>
  /\ UNCHANGED auxVars

\* dec[j].start() settles.  acquired: the camera stream is open and the
\* decoder scans.  Otherwise start() rejects: the first attempt of a start
\* clears the decoder and waits 500 ms, the fallback attempt reports the
\* camera error and sets isScanning to false
StartSettles(j, acquired) ==
  /\ dec[j].state = "starting"
  /\ LET k == dec[j].cb IN
     IF acquired
     THEN /\ dec' = [dec EXCEPT ![j].state = "scanning"]
          /\ starts' = [starts EXCEPT ![k].pc = "done"]
          /\ UNCHANGED <<isScanning, error>>
     ELSE /\ dec' = [dec EXCEPT ![j].state = "created"]
          /\ IF starts[k].pc = "start1"
               THEN /\ starts' = [starts EXCEPT ![k].pc = "wait500"]
                    /\ UNCHANGED <<isScanning, error>>
               ELSE /\ starts' = [starts EXCEPT ![k].pc = "done"]
                    /\ error' = [error EXCEPT ![Operator] = ErrCamera]
                    /\ isScanning' = FALSE
  /\ UNCHANGED <<isAuthorized, currentView, activeTarget, scannerRef, stopWait, writes>>
  /\ UNCHANGED <<store, session, records, isAnalyzing, success, saveTask,
                 fetchTask, delTask>>
  /\ UNCHANGED auxVars

\* the 500 ms wait of start k is over: if (scannerRef.current) it calls
\* start on whatever decoder scannerRef holds now, with the callback of
\* start k; a decoder that is not idle refuses and the error is reported
FallbackStart(k) ==
  /\ starts[k].pc = "wait500"
  /\ IF scannerRef = 0
       THEN /\ starts' = [starts EXCEPT ![k].pc = "done"]
            /\ UNCHANGED <<dec, error, isScanning>>
       ELSE IF dec[scannerRef].state \in {"created", "stopped"}
       THEN /\ dec' = [dec EXCEPT ![scannerRef] = [state |-> "starting", cb |-> k]]
            /\ starts' = [starts EXCEPT ![k].pc = "start2"]
            /\ UNCHANGED <<error, isScanning>>
       ELSE /\ starts' = [starts EXCEPT ![k].pc = "done"]
            /\ error' = [error EXCEPT ![Operator] = ErrCamera]
            /\ isScanning' = FALSE
            /\ UNCHANGED dec
  /\ UNCHANGED <<isAuthorized, currentView, activeTarget, scannerRef, stopWait, writes>>
  /\ UNCHANGED <<store, session, records, isAnalyzing, success, saveTask,
                 fetchTask, delTask>>
  /\ UNCHANGED auxVars

RECURSIVE SumWrites(_)
SumWrites(ks) ==
  IF ks = {} THEN 0
  ELSE LET k == CHOOSE x \in ks : TRUE IN writes[k] + SumWrites(ks \ {k})

\* the decode events delivered so far
TotalWrites == SumWrites(StartIds)

DecodeDropsOtherSlot(j, text) ==
  /\ dec[j].state = "scanning"
  /\ TotalWrites < MaxDecodes
  /\ session' = [session EXCEPT ![Operator] =
        [EmptySession EXCEPT ![starts[dec[j].cb].target] = Trim(text)]]
  /\ writes' = [writes EXCEPT ![dec[j].cb] = @ + 1]
  /\ stopScanner
  /\ UNCHANGED <<isAuthorized, currentView, activeTarget, starts>>
  /\ UNCHANGED <<store, records, isAnalyzing, error, success, saveTask,
                 fetchTask, delTask>>
  /\ UNCHANGED auxVars

\* decoder j reports a decoded text: the callback registered with its
\* start() trims it, writes the slot of that start's target and calls
\* stopScanner() without awaiting it
Decode(j, text) ==
  /\ dec[j].state = "scanning"
  /\ TotalWrites < MaxDecodes
  /\ session' = [session EXCEPT
        ![Operator][starts[dec[j].cb].target] = Trim(text)]
  /\ writes' = [writes EXCEPT ![dec[j].cb] = @ + 1]
  /\ stopScanner
  /\ UNCHANGED <<isAuthorized, currentView, activeTarget, starts>>
  /\ UNCHANGED <<store, records, isAnalyzing, error, success, saveTask,
                 fetchTask, delTask>>
  /\ UNCHANGED auxVars

SetCurrentViewClearsSession(v) ==
  /\ currentView # v
  /\ currentView' = v
  /\ session' = [session EXCEPT ![Operator] = EmptySession]
  /\ UNCHANGED <<isAuthorized, isScanning, activeTarget, scannerRef, starts,
                 dec, stopWait, writes>>
  /\ UNCHANGED <<store, records, isAnalyzing, error, success, saveTask,
                 fetchTask, delTask>>
  /\ UNCHANGED auxVars

\* the Scan and History tabs
SetCurrentView(v) ==
  /\ currentView # v
  /\ currentView' = v
  /\ UNCHANGED <<isAuthorized, isScanning, activeTarget, scannerRef, starts,
                 dec, stopWait, writes>>
  /\ UNCHANGED saveVars
  /\ UNCHANGED auxVars

(* ---------- the PIN gate (src/unnamed/part_003) ---------- *)
REQUIRED_PIN == "779966"
Pins == {REQUIRED_PIN, "000000"}

\* the Logout button: the token is removed, the PIN pad replaces the views
\* and the session is emptied
handleLogout ==
  /\ isAuthorized
  /\ isAuthorized' = FALSE
  /\ currentView' = "scan"
  /\ session' = [session EXCEPT ![Operator] = EmptySession]
  /\ UNCHANGED <<isScanning, activeTarget, scannerRef, starts, dec, stopWait,
                 writes>>
  /\ UNCHANGED <<store, records, isAnalyzing, error, success, saveTask,
                 fetchTask, delTask>>
  /\ UNCHANGED auxVars

\* the sixth digit on the PIN pad completes newPin
handlePinInput(newPin) ==
  /\ ~isAuthorized
  /\ IF newPin = REQUIRED_PIN
       THEN /\ isAuthorized' = TRUE
            /\ error' = [error EXCEPT ![Operator] = NoMsg]
       ELSE /\ error' = [error EXCEPT ![Operator] = ErrPin]
            /\ UNCHANGED isAuthorized
  /\ UNCHANGED <<currentView, isScanning, activeTarget, scannerRef, starts, dec,
                 stopWait, writes>>
  /\ UNCHANGED <<store, session, records, isAnalyzing, success, saveTask,
                 fetchTask, delTask>>
  /\ UNCHANGED auxVars

\* the client has mounted and its first fetchRecords has returned
InitScan ==
  /\ InitSave
  /\ InitScanner
  /\ store = {}
  /\ records = [c \in Clients |-> <<>>]
  /\ session = [c \in Clients |-> EmptySession]
  /\ fetchTask = [c \in Clients |-> [pc |-> "idle", data |-> <<>>]]

NextScan ==
  \/ \E target \in ScanTarget, k \in StartIds : StartScanner(target, k)
  \/ StopButton
  \/ \E j \in StartIds : StopCompletes(j)
  \/ \E k \in StartIds : TimerFires(k)
  \/ \E j \in StartIds, acquired \in BOOLEAN : StartSettles(j, acquired)
  \/ \E k \in StartIds : FallbackStart(k)
  \/ \E j \in StartIds, text \in RawTexts : Decode(j, text)
  \/ \E v \in {"scan", "history"} : SetCurrentView(v)
  \/ ResetSession(Operator)

SpecScan == InitScan /\ [][NextScan]_vars

(* ---------- one client: scanner, PIN gate and save pipeline ---------- *)
\* the client has mounted and its first fetchRecords has listed the store
InitSession ==
  /\ InitSave
  /\ InitScanner
  /\ store = {OldRow}
  /\ records = [c \in Clients |-> mappedData(OrderByTimestampDesc(store))]
  /\ session = [c \in Clients |-> EmptySession]
  /\ fetchTask = [c \in Clients |-> [pc |-> "idle", data |-> <<>>]]

\* the operator's buttons are shown while authorized; the PIN pad otherwise
NextSession ==
  \/ isAuthorized /\ \E target \in ScanTarget, k \in StartIds :
                       StartScanner(target, k)
  \/ isAuthorized /\ StopButton
  \/ isAuthorized /\ \E v \in {"scan", "history"} : SetCurrentView(v)
  \/ isAuthorized /\ ResetSession(Operator)
  \/ isAuthorized /\ \E t \in SaveSlots : HandleSave(Operator, t)
  \/ isAuthorized /\ \E id \in 0..MaxSaves, confirmed \in BOOLEAN :
                       HandleDelete(Operator, id, confirmed)
  \/ handleLogout
  \/ \E pin \in Pins : handlePinInput(pin)
  \/ \E j \in StartIds : StopCompletes(j)
  \/ \E k \in StartIds : TimerFires(k)
  \/ \E j \in StartIds, acquired \in BOOLEAN : StartSettles(j, acquired)
  \/ \E k \in StartIds : FallbackStart(k)
  \/ \E j \in StartIds, text \in RawTexts : Decode(j, text)
  \/ \E t \in SaveSlots, failed \in BOOLEAN : StoreAnswersCheck(t, failed)
  \/ \E t \in SaveSlots : CheckReturns(t)
  \/ \E t \in SaveSlots, resp \in PipelineResponses :
        \E now \in {t} : AnnotateReturns(t, resp, now)
  \/ \E t \in SaveSlots, net \in {"ok", "lost", "failed"} :
        StoreAnswersInsert(t, net)
  \/ \E t \in SaveSlots : InsertReturns(t)
  \/ \E d \in delTask, failed \in BOOLEAN : StoreAnswersDelete(d, failed)
  \/ \E d \in delTask : DeleteReturns(d)

SpecSession == InitSession /\ [][NextSession]_vars

(* ---------- one client: history, delete and export ---------- *)
\* the client has mounted and its first fetchRecords has returned
InitExport ==
  /\ InitSave
  /\ InitScanner
  /\ store \in InitStores
  /\ records = [c \in Clients |-> mappedData(OrderByTimestampDesc(store))]
  /\ session \in [Clients -> InitSessions]
  /\ session[2] = session[1]
  /\ fetchTask = [c \in Clients |-> [pc |-> "idle", data |-> <<>>]]

NextExport ==
  \/ SaveSteps(Solo, PipelineResponses)
  \/ \E threw \in BOOLEAN : exportToExcel(Operator, threw)

SpecExport == InitExport /\ [][NextExport]_vars

(* ---------- one client whose clock differs from the other writers' ---------- *)
\* new Date() of a client whose clock is ahead of, or behind, the clock that
\* stamped the rows already stored
ClockReadings(t) == {t, 0 - t}

\* the client has just mounted: its first fetchRecords is on its way
InitClock ==
  /\ InitSave
  /\ InitScanner
  /\ store \in InitStores
  /\ records = [c \in Clients |-> <<>>]
  /\ session \in [Clients -> InitSessions]
  /\ session[2] = session[1]
  /\ fetchTask = [c \in Clients |->
        [pc |-> IF c \in Solo THEN "sent" ELSE "idle", data |-> <<>>]]

NextClock ==
  \/ \E t \in SaveSlots : HandleSave(Operator, t)
  \/ \E t \in SaveSlots, failed \in BOOLEAN : StoreAnswersCheck(t, failed)
  \/ \E t \in SaveSlots : CheckReturns(t)
  \/ \E t \in SaveSlots, resp \in PipelineResponses :
        \E now \in ClockReadings(t) : AnnotateReturns(t, resp, now)
  \/ \E t \in SaveSlots, net \in {"ok", "lost", "failed"} :
        StoreAnswersInsert(t, net)
  \/ \E t \in SaveSlots : InsertReturns(t)
  \/ \E id \in 0..MaxSaves, confirmed \in BOOLEAN :
        HandleDelete(Operator, id, confirmed)
  \/ \E d \in delTask, failed \in BOOLEAN : StoreAnswersDelete(d, failed)
  \/ \E d \in delTask : DeleteReturns(d)
  \/ \E failed \in BOOLEAN : StoreAnswersFetch(Operator, failed)
  \/ FetchReturns(Operator)

SpecClock == InitClock /\ [][NextClock]_vars

(* ---------- one client scanning while its save is in flight ---------- *)
\* the operator has scanned a pair; the scanner is idle again
InitRescan ==
  /\ InitSave
  /\ InitScanner
  /\ store = {}
  /\ records = [c \in Clients |-> <<>>]
  /\ session = [c \in Clients |->
                  [partNumber |-> <<"s">>, uniqueCode |-> <<"t">>]]
  /\ fetchTask = [c \in Clients |-> [pc |-> "idle", data |-> <<>>]]

NextRescan ==
  \/ \E target \in ScanTarget, k \in StartIds : StartScanner(target, k)
  \/ StopButton
  \/ \E j \in StartIds : StopCompletes(j)
  \/ \E k \in StartIds : TimerFires(k)
  \/ \E j \in StartIds, acquired \in BOOLEAN : StartSettles(j, acquired)
  \/ \E k \in StartIds : FallbackStart(k)
  \/ \E j \in StartIds, text \in RawTexts : Decode(j, text)
  \/ \E t \in SaveSlots : HandleSave(Operator, t)
  \/ \E t \in SaveSlots, failed \in BOOLEAN : StoreAnswersCheck(t, failed)
  \/ \E t \in SaveSlots : CheckReturns(t)
  \/ \E t \in SaveSlots, resp \in PipelineResponses :
        \E now \in {t} : AnnotateReturns(t, resp, now)
  \/ \E t \in SaveSlots, net \in {"ok", "lost", "failed"} :
        StoreAnswersInsert(t, net)
  \/ \E t \in SaveSlots : InsertReturns(t)

SpecRescan == InitRescan /\ [][NextRescan]_vars

(* ---------- the save pipeline under fair scheduling ---------- *)
\* the client has mounted, its first fetchRecords has returned and the
\* operator has scanned a session
InitLive ==
  /\ InitSave
  /\ InitScanner
  /\ store \in InitStores
  /\ records = [c \in Clients |-> mappedData(OrderByTimestampDesc(store))]
  /\ session \in [Clients -> InitSessions]
  /\ session[2] = session[1]
  /\ fetchTask = [c \in Clients |-> [pc |-> "idle", data |-> <<>>]]

NextLive ==
  \/ \E t \in SaveSlots : HandleSave(Operator, t)
  \/ \E t \in SaveSlots, failed \in BOOLEAN : StoreAnswersCheck(t, failed)
  \/ \E t \in SaveSlots : CheckReturns(t)
  \/ \E t \in SaveSlots, resp \in Responses :
        \E now \in {t} : AnnotateReturns(t, resp, now)
  \/ \E t \in SaveSlots, net \in {"ok", "lost", "failed"} :
        StoreAnswersInsert(t, net)
  \/ \E t \in SaveSlots : InsertReturns(t)

\* every store call returns, and a handler whose await has settled is
\* resumed by the event loop; nothing makes the annotation service answer
StoreCallsReturn ==
  \A t \in SaveSlots :
    /\ WF_vars(\E failed \in BOOLEAN : StoreAnswersCheck(t, failed))
    /\ WF_vars(CheckReturns(t))
    /\ WF_vars(\E net \in {"ok", "lost", "failed"} : StoreAnswersInsert(t, net))
    /\ WF_vars(InsertReturns(t))

SpecLive == InitLive /\ [][NextLive]_vars /\ StoreCallsReturn

(***************************************************************************)
(* The claims                                                              *)
(***************************************************************************)
ClientOf(t) == saveTask[t].client

\* invocation t returns in this step
Returns(t) == InFlight(t) /\ saveTask'[t].pc = "done"

\* invocation t returns in this step from an acknowledged insert
Commits(t) ==
  Returns(t) /\ saveTask[t].pc = "inserted" /\ saveTask[t].reply = "ok"

\* a handleSave call by c is rejected in this step for an incomplete session
Rejected(c) == error'[c] = ErrIncomplete /\ error[c] # ErrIncomplete

\* C1: while one handleSave invocation of a client is in flight, no second
\* invocation of that client is in flight too (a second call is rejected or
\* deferred, issuing no duplicate-check query and no insert).
C1_NoSecondSaveInFlight ==
  \A c \in Clients :
    Cardinality({ t \in SaveSlots : InFlight(t) /\ ClientOf(t) = c }) <= 1

\* C2: an invocation whose insert the store rejects for uniqueness returns
\* with the duplicate-conflict error, as a duplicate found by the check does.
C2_LoserGetsDuplicateConflict ==
  [][\A t \in SaveSlots :
       (Returns(t) /\ saveTask[t].pc = "inserted" /\ saveTask[t].reply = "23505")
         => error'[ClientOf(t)] = ErrDuplicate]_vars

\* C3: in every reachable state no two rows of the store have the same
\* uniqueCode.
C3_UniqueCodeUnique ==
  \A r1 \in store, r2 \in store : r1.unique_code = r2.unique_code => r1 = r2

\* two clients raced with one code: the store holds the winner's row and an
\* insert of the same code has been rejected
C3_Witness ==
  \E t \in SaveSlots :
    /\ saveTask[t].pc = "inserted"
    /\ saveTask[t].reply = "23505"
    /\ \E r \in store : r.unique_code = saveTask[t].uniqueCode /\ r.id >= 1

\* C4: when the duplicate check comes back with an existing row, the
\* invocation returns at once with the duplicate-conflict error: it makes
\* no annotation call and no insert, and the store, the in-memory lists and
\* the sessions are unchanged.
C4_DuplicateAborts ==
  [][\A t \in SaveSlots :
       (saveTask[t].pc = "checked" /\ saveTask[t].reply = "row"
          /\ saveTask'[t] # saveTask[t])
         => /\ saveTask' = [saveTask EXCEPT ![t] = DoneTask]
            /\ error'[ClientOf(t)] = ErrDuplicate
            /\ ~isAnalyzing'[ClientOf(t)]
            /\ store' = store
            /\ records' = records
            /\ session' = session
            /\ success' = success]_vars

\* a save of a complete session was aborted as a duplicate, and the row
\* with its code is in the store
C4_Witness ==
  \E c \in Clients :
    /\ error[c] = ErrDuplicate
    /\ ~Incomplete(session[c])
    /\ SelectByCode(session[c].uniqueCode) # {}
    /\ \A t \in SaveSlots : ClientOf(t) = c => ~InFlight(t)

\* C5: a handleSave call that fails (incomplete session, duplicate found,
\* insert rejected or failed) leaves both session slots as they were.
C5_FailedSaveKeepsSession ==
  [][\A c \in Clients :
       (\/ Rejected(c)
        \/ \E t \in SaveSlots : ClientOf(t) = c /\ Returns(t) /\ ~Commits(t))
         => session'[c] = session[c]]_vars

\* a save of a complete session has failed at the store and the session
\* is still complete
C5_Witness ==
  \E c \in Clients : error[c] = ErrSave /\ ~Incomplete(session[c])

\* C6: with a slot unset (null or empty) a handleSave call starts no
\* invocation (no query, no annotation, no insert) and does not set the
\* in-flight flag.
C6_IncompleteRejected ==
  [][\A c \in Clients :
       (Falsy(session[c].partNumber) \/ Falsy(session[c].uniqueCode))
         => /\ isAnalyzing'[c] => isAnalyzing[c]
            /\ \A t \in SaveSlots :
                 saveTask[t].pc = "idle"
                   => (saveTask'[t].pc = "idle" \/ saveTask'[t].client # c)]_vars

\* a save was rejected for a session with one slot set and the other empty
C6_Witness ==
  \E c \in Clients :
    /\ error[c] = ErrIncomplete
    /\ ~isAnalyzing[c]
    /\ \/ (session[c].partNumber = <<>> /\ ~Falsy(session[c].uniqueCode))
       \/ (session[c].uniqueCode = NULL /\ ~Falsy(session[c].partNumber))

FallbackTexts == {"Verification complete.", "Scan verified by AI."}

\* the text analyzeScanPair returns for each way the call can fail
FallbackFor(annotation) ==
  IF annotation = "threw" THEN "Verification complete." ELSE "Scan verified by AI."

AnnotationFailed(t) == saveTask[t].annotation \in {"threw", "empty"}

\* C7 as stated: after a failed annotation call the saved record's analysis
\* is "Verified".
C7_FallbackIsVerified ==
  [][\A t \in SaveSlots :
       (Commits(t) /\ AnnotationFailed(t))
         => Head(records'[ClientOf(t)]).analysis = "Verified"]_vars

\* C7 amended: after a failed annotation call handleSave goes on to the
\* insert, and the row stored and the record listed carry the text
\* analyzeScanPair returns: "Verification complete." when the call threw,
\* "Scan verified by AI." when the response had no text.
C7_FallbackAnalysis ==
  [][\A t \in SaveSlots :
       /\ (saveTask[t].pc = "annotate" /\ saveTask'[t] # saveTask[t])
            => /\ saveTask'[t].pc = "insert"
               /\ AnnotationFailed(t)'
                    => saveTask'[t].analysis = FallbackFor(saveTask'[t].annotation)
       /\ (saveTask[t].pc = "insert" /\ AnnotationFailed(t))
            => \A r \in store' \ store :
                 r.id = saveTask[t].id
                   => r.analysis = FallbackFor(saveTask[t].annotation)
       /\ (Commits(t) /\ AnnotationFailed(t))
            => Head(records'[ClientOf(t)]).analysis
                 = FallbackFor(saveTask[t].annotation)]_vars

\* a save whose annotation failed has succeeded: the stored row and the
\* listed record carry a fallback text
C7_Witness ==
  \E c \in Clients :
    /\ success[c] = MsgSaved
    /\ records[c] # <<>>
    /\ Head(records[c]).analysis \in FallbackTexts
    /\ \E r \in store : r.id = Head(records[c]).id /\ r.id >= 1
                          /\ r.analysis = Head(records[c]).analysis

\* C8: an invocation takes the session of the moment it is made; when its
\* insert is acknowledged it puts one record with that partNumber and
\* uniqueCode and the id, timestamp and analysis of the row sent at the head
\* of the list, clears the session and sets the success notification; an
\* invocation that returns otherwise does none of the three.
C8_CommitEffects ==
  [][\A t \in SaveSlots :
       /\ (saveTask[t].pc = "idle" /\ saveTask'[t].pc # "idle")
            => /\ saveTask'[t].partNumber = session[saveTask'[t].client].partNumber
               /\ saveTask'[t].uniqueCode = session[saveTask'[t].client].uniqueCode
       /\ (saveTask[t].pc = "insert" /\ saveTask'[t].reply = "ok")
            => newRecordData(t) \in store'
       /\ Commits(t)
            => /\ records'[ClientOf(t)] =
                    <<[id |-> saveTask[t].id,
                       partNumber |-> saveTask[t].partNumber,
                       uniqueCode |-> saveTask[t].uniqueCode,
                       timestamp |-> saveTask[t].timestamp,
                       status |-> "synced",
                       analysis |-> saveTask[t].analysis]>>
                    \o records[ClientOf(t)]
               /\ session'[ClientOf(t)] = EmptySession
               /\ success'[ClientOf(t)] = MsgSaved
       /\ (Returns(t) /\ ~Commits(t))
            => /\ records' = records
               /\ session' = session
               /\ success' = success]_vars

\* a save has been committed onto a list that already held a record
C8_Witness ==
  \E c \in Clients :
    /\ success[c] = MsgSaved
    /\ session[c] = EmptySession
    /\ Len(records[c]) >= 2
    /\ Head(records[c]).id >= 1

\* C9: at most one decoder instance holds an open camera stream.
C9_OneCameraStream ==
  Cardinality({ j \in StartIds : CameraHeld(j) }) <= 1

\* C10: the callback of one startScanner call writes the session at most
\* once.
C10_OneWritePerStart ==
  \A k \in StartIds : writes[k] <= 1

\* C11: stopScanner called while no decoder is held changes nothing and sets
\* no error; a call that finds a decoder ends with no decoder held and
\* isScanning false, and when it awaited stop() the camera is released: a
\* second call then finds no decoder and changes nothing.
C11_StopIdempotent ==
  [][/\ (scannerRef = 0 /\ starts' = starts /\ dec' = dec)
          => UNCHANGED <<scannerRef, stopWait, isScanning, error>>
     /\ \A j \in StartIds :
          (dec[j].state = "stopping" /\ dec'[j].state = "stopped"
             /\ stopWait[j] = PlainStop)
            => /\ scannerRef' = 0
               /\ ~isScanning'
               /\ ~CameraHeld(j)'
               /\ stopWait'[j] = NoStop
     /\ (scannerRef # 0 /\ scannerRef' = 0 /\ dec' = dec /\ starts' = starts)
          => ~isScanning']_vars

\* a stopScanner call has stopped a scanning decoder: none is held, no
\* camera stream is open and isScanning is false
C11_Witness ==
  /\ scannerRef = 0
  /\ ~isScanning
  /\ \E j \in StartIds : dec[j].state = "stopped"
  /\ \A i \in StartIds : ~CameraHeld(i) /\ dec[i].state # "starting"

\* C12: a decode delivered to the callback of start k sets the slot of that
\* start's target to the trimmed text, whatever the slot held, and leaves
\* the other slot as it was.
C12_DecodeWritesItsSlot ==
  [][\A k \in StartIds :
       writes'[k] # writes[k]
         => \E text \in RawTexts :
              session'[Operator] =
                [session[Operator] EXCEPT ![starts[k].target] = Trim(text)]]_vars

\* two decodes have filled the two slots with different values
C12_Witness ==
  /\ TotalWrites = 2
  /\ session[Operator].partNumber = <<"s">>
  /\ session[Operator].uniqueCode = <<"t">>

\* C13: every session slot is null or a trimmed, non-empty string.
C13_SlotsTrimmedNonEmpty ==
  \A c \in Clients, T \in ScanTarget :
    \/ session[c][T] = NULL
    \/ (session[c][T] # <<>> /\ Trim(session[c][T]) = session[c][T])

\* this step is a decode delivered to a callback whose target is T
SlotDecoded(T) ==
  \E k \in StartIds : writes'[k] = writes[k] + 1 /\ starts[k].target = T

\* this step commits a save of the operator
SessionCommitted ==
  \E t \in SaveSlots : Commits(t) /\ ClientOf(t) = Operator

\* this step is the Reset button: the session is emptied, nothing else moves
ResetStep ==
  /\ session'[Operator] = EmptySession
  /\ UNCHANGED <<store, records, isAnalyzing, error, success, saveTask,
                 fetchTask, delTask>>
  /\ UNCHANGED scanVars
  /\ UNCHANGED auxVars

\* this step is a logout
LogoutStep == isAuthorized /\ ~isAuthorized'

C15_SecondDeleteNotFound ==
  [][\A d \in delTask :
       (d.reply = "none" /\ d \notin delTask'
          /\ ~(\E r \in store : r.id = d.id))
         => [d EXCEPT !.reply = "ok"] \notin delTask']_vars

\* the fallback start() of attempt k is rejected in this step
FallbackRejected(k) ==
  /\ starts[k].pc = "start2"
  /\ starts'[k].pc = "done"
  /\ \E j \in StartIds :
       dec[j].cb = k /\ dec[j].state = "starting" /\ dec'[j].state = "created"

\* the fallback of attempt k calls start() in this step and is refused
FallbackRefused(k) ==
  starts[k].pc = "wait500" /\ starts'[k].pc = "done" /\ scannerRef # 0

\* no decoder is starting, scanning or stopping
NoDecoderRunning ==
  \A j \in StartIds : dec[j].state \in {"none", "created", "stopped"}

C17_NoContainerIsError ==
  [][\A k \in StartIds :
       (starts[k].pc = "timer" /\ starts'[k].pc # "timer" /\ ~container)
         => /\ starts'[k].pc = "done"
            /\ dec' = dec
            /\ scannerRef' = scannerRef
            /\ ~isScanning'
            /\ error'[Operator] = ErrContainer]_vars

\* an attempt has ended with the container error and created no decoder
C17_Witness ==
  /\ error[Operator] = ErrContainer
  /\ ~isScanning
  /\ \E k \in StartIds : starts[k].pc = "done" /\ dec[k].state = "none"

C19_AnnotationBounded ==
  \A t \in SaveSlots :
    (saveTask[t].pc = "annotate") ~> (saveTask[t].pc # "annotate")

\* C20: an invocation whose insert failed for another reason than
\* uniqueness returns with the save-failure error and the flag idle, and
\* leaves the list, the success notification and the session as they were;
\* a handleSave call on a complete session starts the pipeline at the
\* duplicate check with that session.
C20_InsertFailureKeepsSession ==
  [][\A t \in SaveSlots :
       /\ (Returns(t) /\ saveTask[t].pc = "inserted" /\ saveTask[t].reply = "error")
            => /\ error'[ClientOf(t)] = ErrSave
               /\ ~isAnalyzing'[ClientOf(t)]
               /\ records' = records
               /\ success' = success
               /\ session' = session
       /\ \A c \in Clients :
            (NextInvocation(t) /\ ~Incomplete(session[c])
               /\ saveTask'[t].pc # "idle" /\ saveTask'[t].client = c)
              => /\ saveTask'[t].pc = "check"
                 /\ saveTask'[t].partNumber = session[c].partNumber
                 /\ saveTask'[t].uniqueCode = session[c].uniqueCode]_vars

\* the first save failed at the insert without a row being stored, and the
\* retry of the same session is at its duplicate check
C20_Witness ==
  /\ saveTask[1].pc = "done"
  /\ saveTask[2].pc = "check"
  /\ store = {}
  /\ success[1] = NoMsg
  /\ records[1] = <<>>
  /\ saveTask[2].partNumber = session[1].partNumber
  /\ saveTask[2].uniqueCode = session[1].uniqueCode

\* C21: when an invocation returns with the save failure after its insert,
\* the store holds no row of that invocation, also when the acknowledgement
\* of the insert was lost.
C21_FailedSaveLeavesStore ==
  [][\A t \in SaveSlots :
       (Returns(t) /\ saveTask[t].pc = "inserted" /\ saveTask[t].reply = "error")
         => ~(\E r \in store' : r.id = saveTask[t].id)]_vars

\* the list is ordered by timestamp, newest first
OrderedByTimestampDesc(list) ==
  \A i \in 1..(Len(list) - 1) : list[i].timestamp >= list[i + 1].timestamp

\* C22: in every reachable state the in-memory list is ordered by timestamp
\* descending: after a fetch, after a committed save and after a delete.
C22_ListOrderedByTimestamp ==
  \A c \in Clients : OrderedByTimestampDesc(records[c])

\* what a column holds, whatever its title
ColumnMeaning(title) ==
  IF title = "Date & Time" THEN "Timestamp"
  ELSE IF title = "Verification" THEN "Analysis"
  ELSE title

\* the columns of a sheet row, in order
Columns(row) == [i \in 1..Len(row) |-> ColumnMeaning(row[i][1])]

\* this step writes a sheet
Exports == report' # report

C24_DecodeMatchesActiveTarget ==
  [][\A k \in StartIds :
       writes'[k] # writes[k] => activeTarget = starts[k].target]_vars

\* C25: a start during whose delay Stop was pressed creates no decoder when
\* its timer fires.
C25_StopCancelsPendingStart ==
  [][\A k \in StartIds :
       (k \in stopAsked /\ starts[k].pc = "timer" /\ starts'[k].pc # "timer")
         => /\ dec'[k].state = "none"
            /\ scannerRef' = scannerRef]_vars

\* C26: whenever isScanning is false, no decoder is scanning.
C26_NotScanningNoDecoder ==
  ~isScanning => \A j \in StartIds : dec[j].state # "scanning"

\* C27: a commit leaves a slot alone whose value is not the one the
\* invocation saved (a value decoded while the save was in flight).
C27_ScanDuringSaveKept ==
  [][\A t \in SaveSlots, T \in ScanTarget :
       (Commits(t) /\ ClientOf(t) = Operator
          /\ session[Operator][T] # saveTask[t][T])
         => session'[Operator][T] = session[Operator][T]]_vars

\* C28: an invocation whose duplicate-check query failed returns at once
\* with the save-failure error, making no annotation call and no insert.
C28_CheckFailureAborts ==
  [][\A t \in SaveSlots :
       (saveTask[t].pc = "checked" /\ saveTask[t].reply = "error"
          /\ saveTask'[t] # saveTask[t])
         => /\ saveTask'[t].pc = "done"
            /\ error'[ClientOf(t)] = ErrSave]_vars

\* C29: in every reachable state no two records of an in-memory list have
\* the same id.
C29_NoDuplicateIds ==
  \A c \in Clients :
    \A i \in 1..Len(records[c]), j \in 1..Len(records[c]) :
      i # j => records[c][i].id # records[c][j].id

\* C30: a row leaves the store only by the answer to a delete request the
\* operator confirmed; a delete request that failed sets the delete error
\* and leaves the list, the session, the success notification and the
\* store as they were.
C30_DeleteFailureSurfaced ==
  [][/\ \A r \in store \ store' :
          \E d \in delTask : d.reply = "none" /\ d.id = r.id
     /\ \A d \in delTask :
          (d.reply = "error" /\ d \notin delTask')
            => /\ error'[d.client] = ErrDelete
               /\ records' = records
               /\ session' = session
               /\ success' = success
               /\ store' = store]_vars

\* a delete of the listed record has failed: the record is still listed
\* and stored, and no success is shown
C30_Witness ==
  /\ error[Operator] = ErrDelete
  /\ success[Operator] = NoMsg
  /\ delTask = {}
  /\ OldRow \in store
  /\ \E i \in 1..Len(records[Operator]) : records[Operator][i].id = OldRow.id

====
